---- MODULE Spec2Model ----
(***************************************************************************)
(* A model of Stress_Fibre_Scores.py: tiled analysis of actin stress       *)
(* fibres with the Kirsch directional derivative estimators.               *)
(*                                                                         *)
(* Numbers.  The script computes with Python floats; the model computes    *)
(* exactly.  A float is a rational [n, d] with d > 0.  An angle is an      *)
(* integer number of units of (2*pi)/len(edgeDir), so that pi is           *)
(* Len(dirKernels) \div 2 units.  The script runs under Jython (Python 2): *)
(* "/" between two ints is floor division.                                 *)
(*                                                                         *)
(* ImageJ.  An ImageProcessor is a record [w, h, px, unit] with px a        *)
(* function on <<x, y>>, 0 <= x < w, 0 <= y < h; the pixel at <<x, y>> is  *)
(* px[<<x, y>>] / unit (pixels are floats, no clamping or rounding).       *)
(* ImageJ's own operations (convolve, crop, setRoi, blurGaussian,          *)
(* getStackIndex, ResultsTable.setValue) are modelled by what they do to   *)
(* such a record.                                                          *)
(***************************************************************************)
EXTENDS Integers, Sequences, FiniteSets, TLC

(***************************************************************************)
(* Bounds of the model.                                                    *)
(***************************************************************************)
MaxTile == 2

MaxSide == 130

MaxSlices == 3

MaxFiles == 2

PixVals == {-1, 0, 1}

(***************************************************************************)
(* Exact arithmetic.                                                       *)
(***************************************************************************)
Abs(i) == IF i < 0 THEN 0 - i ELSE i

RECURSIVE GCD(_, _)
GCD(a, b) == IF b = 0 THEN a ELSE GCD(b, a % b)

\* the rational n/d, d # 0, in lowest terms with a positive denominator
Rat(n, d) ==
  LET g == GCD(Abs(n), Abs(d))
      sign == IF d < 0 THEN -1 ELSE 1
  IN  [n |-> sign * (n \div g), d |-> sign * (d \div g)]

RatInt(i) == [n |-> i, d |-> 1]

RatAdd(a, b) ==
  IF a.n = 0 THEN b
  ELSE IF b.n = 0 THEN a
  ELSE LET g == GCD(a.d, b.d)
       IN  Rat(a.n * (b.d \div g) + b.n * (a.d \div g), (a.d \div g) * b.d)

RatSub(a, b) == RatAdd(a, [n |-> 0 - b.n, d |-> b.d])

RatMul(a, b) ==
  IF a.n = 0 \/ b.n = 0 THEN RatInt(0)
  ELSE LET g1 == GCD(Abs(a.n), b.d)
           g2 == GCD(Abs(b.n), a.d)
       IN  Rat((a.n \div g1) * (b.n \div g2), (a.d \div g2) * (b.d \div g1))

\* a / b for b # 0
RatDiv(a, b) == RatMul(a, Rat(b.d, b.n))

RatLT(a, b) ==
  LET g == GCD(a.d, b.d)
  IN  a.n * (b.d \div g) < b.n * (a.d \div g)

RatEq(a, b) == a = b

RatIsZero(a) == a.n = 0

\* s[lo] + ... + s[hi], by halves
RECURSIVE SumRange(_, _, _)
SumRange(s, lo, hi) ==
  IF lo > hi THEN 0
  ELSE IF lo = hi THEN s[lo]
  ELSE LET mid == (lo + hi) \div 2
       IN  SumRange(s, lo, mid) + SumRange(s, mid + 1, hi)

SeqSum(s) == SumRange(s, 1, Len(s))

\* Python's sum() of a list of floats, by halves
RECURSIVE RatSumRange(_, _, _)
RatSumRange(s, lo, hi) ==
  IF lo > hi THEN RatInt(0)
  ELSE IF lo = hi THEN s[lo]
  ELSE LET mid == (lo + hi) \div 2
       IN  RatAdd(RatSumRange(s, lo, mid), RatSumRange(s, mid + 1, hi))

RatSum(s) == RatSumRange(s, 1, Len(s))

\* Python's max() and min() of a non-empty list of floats
RatMax(s) == s[CHOOSE i \in 1..Len(s) : \A j \in 1..Len(s) : ~RatLT(s[i], s[j])]

RatMin(s) == s[CHOOSE i \in 1..Len(s) : \A j \in 1..Len(s) : ~RatLT(s[j], s[i])]

\* Python's list.index(v): the 0-based position of the first element equal to v
IndexOf(s, v) == (CHOOSE i \in 1..Len(s) :
                     /\ RatEq(s[i], v)
                     /\ \A j \in 1..(i - 1) : ~RatEq(s[j], v)) - 1

(***************************************************************************)
(* ImageProcessor.                                                         *)
(***************************************************************************)
Coords(w, h) == (0..(w - 1)) \X (0..(h - 1))

Clamp(v, n) == IF v < 0 THEN 0 ELSE IF v > n - 1 THEN n - 1 ELSE v

\* the pixel at (x, y), out-of-image coordinates taking the nearest edge pixel
EdgePixel(ip, x, y) == ip.px[<<Clamp(x, ip.w), Clamp(y, ip.h)>>]

\* ip.getStatistics().mean
Mean(ip) == Rat(SeqSum([j \in 1..ip.h |->
                   SeqSum([i \in 1..ip.w |-> ip.px[<<i - 1, j - 1>>]])]),
                ip.w * ip.h * ip.unit)

(***************************************************************************)
(* The Kirsch kernels, row-major 3x3.                                      *)
(***************************************************************************)
\* the list with its last kernel a copy of the one before it
dirKernelsLastCopied ==
  << <<5, 5, 5,
       -3, 0, -3,
       -3, -3, -3>>,
     <<-3, 5, 5,
       -3, 0, 5,
       -3, -3, -3>>,
     <<-3, -3, 5,
       -3, 0, 5,
       -3, -3, 5>>,
     <<-3, -3, -3,
       -3, 0, 5,
       -3, 5, 5>>,
     <<-3, -3, -3,
       5, 0, -3,
       5, 5, -3>>,
     <<-3, -3, -3,
       -3, 0, -3,
       5, 5, 5>>,
     <<5, 5, -3,
       5, 0, -3,
       -3, -3, -3>>,
     <<5, 5, -3,
       5, 0, -3,
       -3, -3, -3>> >>

dirKernels ==
  << <<5, 5, 5,
       -3, 0, -3,
       -3, -3, -3>>,
     <<-3, 5, 5,
       -3, 0, 5,
       -3, -3, -3>>,
     <<-3, -3, 5,
       -3, 0, 5,
       -3, -3, 5>>,
     <<-3, -3, -3,
       -3, 0, 5,
       -3, 5, 5>>,
     <<-3, -3, -3,
       5, 0, -3,
       5, 5, -3>>,
     <<-3, -3, -3,
       -3, 0, -3,
       5, 5, 5>>,
     <<5, 5, -3,
       5, 0, -3,
       -3, -3, -3>>,
     <<5, -3, -3,
       5, 0, -3,
       5, -3, -3>> >>

\* d.convolve(k, 3, 3): each pixel becomes the kernel-weighted sum of its 3x3
\* neighbourhood, edge pixels replicated.  ImageJ divides by the sum of the
\* kernel's weights unless that sum is 0.
KernelScale(k) == IF SeqSum(k) = 0 THEN 1 ELSE SeqSum(k)

ConvolveAt(ip, k, x, y) ==
  SeqSum([t \in 1..Len(k) |->
            k[t] * EdgePixel(ip, x + ((t - 1) % 3) - 1, y + ((t - 1) \div 3) - 1)])

Convolve(ip, k) ==
  [w |-> ip.w, h |-> ip.h,
   px |-> [c \in Coords(ip.w, ip.h) |-> ConvolveAt(ip, k, c[1], c[2])],
   unit |-> ip.unit * KernelScale(k)]

\* the value edgeDirections appends for kernel number i (1-based)
DirectionValue(ip, i) == Mean(Convolve(ip, dirKernels[i]))

edgeDirections(ip) == [i \in 1..Len(dirKernels) |-> DirectionValue(ip, i)]

(***************************************************************************)
(* normAngle, angles in units of (2*pi)/len(edgeDir).                      *)
(***************************************************************************)
TwoPi == Len(dirKernels)

Pi == TwoPi \div 2

normAngle(theta) ==
  LET t1 == IF theta < 0 THEN TwoPi + theta ELSE theta
  IN  IF t1 > Pi THEN t1 - Pi ELSE t1

(***************************************************************************)
(* Lines 103-109 of tiledAnalysis: the score and the principal direction   *)
(* of one tile from its 8 directional responses.  raised is TRUE when the  *)
(* division of line 106 raises ZeroDivisionError.  maxi*((2*pi)/len) is    *)
(* maxi angle units and pi/2 is Pi \div 2 of them.                         *)
(***************************************************************************)
Scoring(edgeDir) ==
  LET edgeSum == RatSum(edgeDir)
      edgeMax == RatMax(edgeDir)
      edgeMin == RatMin(edgeDir)
      divisor == RatSub(edgeSum, edgeMin)
      maxi    == IndexOf(edgeDir, edgeMax)
  IN  IF RatIsZero(divisor)
      THEN [raised |-> TRUE, edgeSum |-> edgeSum, edgeMax |-> edgeMax,
            edgeMin |-> edgeMin]
      ELSE [raised |-> FALSE, edgeSum |-> edgeSum, edgeMax |-> edgeMax,
            edgeMin |-> edgeMin,
            score |-> RatMul(RatDiv(RatSub(edgeMax, edgeMin), divisor), RatInt(8)),
            maxi |-> maxi,
            theta |-> normAngle(maxi + Pi \div 2)]

(***************************************************************************)
(* Lines 84-96 of tiledAnalysis: the tile grid.                            *)
(***************************************************************************)
nRows == 24

\* int(H/nRows)
StepOf(h) == h \div nRows

\* int(step/5.0)
OverlapOf(st) == st \div 5

\* ox = x+step/2, and oy likewise
Centre(x0, st) == x0 + st \div 2

\* the centre check with the bounds off by one
CentreOutsideOffByOne(ox, oy, w, h) == ox > w \/ oy > h

\* the condition of line 94 under which the tile is skipped
CentreOutside(ox, oy, w, h) == ox > w - 1 \/ oy > h - 1

\* Roi(x-overlap, y-overlap, step+overlap*2, step+overlap*2)
Roi(x0, y0, st, ov) ==
  [x |-> x0 - ov, y |-> y0 - ov, width |-> st + ov * 2, height |-> st + ov * 2]

NoRoi == [x |-> 0, y |-> 0, width |-> 0, height |-> 0]

\* the loop variables after the iteration at (x0, y0) of
\* "for y in range(overlap,H-1,step): for x in range(overlap,W-1,step)";
\* more is FALSE when that iteration was the last
NextTile(x0, y0, w, h, st, ov) ==
  IF x0 + st < w - 1 THEN [x |-> x0 + st, y |-> y0, more |-> TRUE]
  ELSE IF y0 + st < h - 1 THEN [x |-> ov, y |-> y0 + st, more |-> TRUE]
  ELSE [x |-> x0, y |-> y0, more |-> FALSE]

(***************************************************************************)
(* An ImagePlus is [title, W, H, nChannels, nSlices, planes]: planes[i] is *)
(* the plane at stack index i, a pattern and a level that give its pixels. *)
(***************************************************************************)
PatternValue(pat, x0, y0) ==
  CASE pat = "flat" -> 0
    [] pat = "rows" -> IF y0 % 3 = 0 THEN 4 ELSE 0
    [] pat = "quad" -> (x0 * x0 + y0) % 3
    [] pat = "mix" -> (x0 * x0 + 3 * y0 * y0 + x0 * y0) % 5

RawPixel(plane, x0, y0) == plane.level + PatternValue(plane.pat, x0, y0)

\* stack.getProcessor(index)
GetProcessor(im, index) ==
  [w |-> im.W, h |-> im.H,
   px |-> [c \in Coords(im.W, im.H) |-> RawPixel(im.planes[index], c[1], c[2])],
   unit |-> 1]

\* imp.getStackIndex(channel, slice, frame) of a stack with one frame: ImageJ
\* positions are 1-based and an out-of-range position is moved to the
\* nearest valid one
getStackIndex(im, channel, slice, frame) ==
  LET c == IF channel < 1 THEN 1
           ELSE IF channel > im.nChannels THEN im.nChannels ELSE channel
      sl == IF slice < 1 THEN 1
            ELSE IF slice > im.nSlices THEN im.nSlices ELSE slice
      f == 1
  IN  (f - 1) * im.nChannels * im.nSlices + (sl - 1) * im.nChannels + c

(***************************************************************************)
(* Lines 147-154 of run: the slice selection loop.                         *)
(***************************************************************************)
SliceStart == [maxM |-> RatInt(-1), maxZ |-> -1]

\* the body of the loop for slice counter zz
SliceBody(im, zz, sel) ==
  LET value == Mean(GetProcessor(im, getStackIndex(im, 2, zz, 1)))
  IN  IF RatLT(sel.maxM, value) THEN [maxM |-> value, maxZ |-> zz] ELSE sel

(***************************************************************************)
(* process: the band-pass filter.  blurGaussian is a normalised, separable *)
(* smoothing with edge pixels replicated; the model takes the binomial     *)
(* kernel of radius 1 for sigmaPx and the one of radius 2 for sigmaPx*1.4. *)
(* The filtered pixel is ProcessPixel / ProcUnit.                          *)
(***************************************************************************)
NarrowKernel == <<1, 2, 1>>

WideKernel == <<1, 4, 6, 4, 1>>

KernelWeight(k) == SeqSum(k) * SeqSum(k)

BlurSum(plane, w, h, k, x0, y0) ==
  LET r == Len(k) \div 2
  IN  SeqSum([j \in 1..Len(k) |->
        SeqSum([i \in 1..Len(k) |->
          k[i] * k[j] * RawPixel(plane, Clamp(x0 + i - 1 - r, w),
                                        Clamp(y0 + j - 1 - r, h))])])

\* the weight of the wide kernel is a multiple of that of the narrow one
ProcUnit == KernelWeight(WideKernel)

\* ip.copyBits(sub, 0,0, Blitter.SUBTRACT) at pixel (x0, y0)
ProcessPixel(plane, w, h, x0, y0) ==
  BlurSum(plane, w, h, NarrowKernel, x0, y0)
      * (KernelWeight(WideKernel) \div KernelWeight(NarrowKernel))
    - BlurSum(plane, w, h, WideKernel, x0, y0)

\* a pixel of the unfiltered slice, in the unit of the filtered one
AnalysedPixelRaw(plane, w, h, x0, y0) == RawPixel(plane, x0, y0) * ProcUnit

\* a pixel of the image run hands to tiledAnalysis: proc = process(actin)
AnalysedPixel(plane, w, h, x0, y0) == ProcessPixel(plane, w, h, x0, y0)

\* ip.setRoi(tileRoi): the rectangle is intersected with the image
ClipRoi(roi, w, h) ==
  LET x1 == IF roi.x < 0 THEN 0 ELSE roi.x
      y1 == IF roi.y < 0 THEN 0 ELSE roi.y
      x2 == IF roi.x + roi.width > w THEN w ELSE roi.x + roi.width
      y2 == IF roi.y + roi.height > h THEN h ELSE roi.y + roi.height
  IN  [x |-> x1, y |-> y1, width |-> x2 - x1, height |-> y2 - y1]

\* the pixel array of a new processor of width w: the pixels number lo..hi
\* (row-major, from 0) of f are each computed once and stored
RECURSIVE CopyPixels(_, _, _, _)
CopyPixels(f, w, lo, hi) ==
  IF lo > hi THEN <<>>
  ELSE IF lo = hi THEN <<lo % w, lo \div w>> :> f[<<lo % w, lo \div w>>]
  ELSE LET mid == (lo + hi) \div 2
       IN  CopyPixels(f, w, lo, mid) @@ CopyPixels(f, w, mid + 1, hi)

\* tile = ip.crop()
Crop(plane, w, h, roi) ==
  LET r == ClipRoi(roi, w, h)
  IN  [w |-> r.width, h |-> r.height,
       px |-> CopyPixels([c \in Coords(r.width, r.height) |->
                            AnalysedPixel(plane, w, h, r.x + c[1], r.y + c[2])],
                         r.width, 0, r.width * r.height - 1),
       unit |-> ProcUnit]

\* the whole slice selection loop, from slice counter zz on
RECURSIVE SliceLoop(_, _, _)
SliceLoop(im, zz, sel) ==
  IF zz >= im.nSlices THEN sel ELSE SliceLoop(im, zz + 1, SliceBody(im, zz, sel))

(***************************************************************************)
(* The result table and the overlay.                                       *)
(***************************************************************************)
\* rt.getCounter()
getCounter(t) == Len(t)

\* the rt.setValue calls of lines 111-117 on row r (0-based): setValue on
\* row getCounter() adds the row, on an earlier row it overwrites it
setValue(t, r, rec) ==
  IF r = Len(t) THEN Append(t, rec) ELSE [t EXCEPT ![r + 1] = rec]

\* setValue raises IllegalArgumentException on a row beyond getCounter()
RowInRange(t, r) == r <= Len(t)

\* the row counter left as it is
NextRowStuck(r) == r

\* row += 1
NextRow(r) == r + 1

TileRecord(ttl, r, ox, oy, c, fibreI, sc) ==
  [Image |-> ttl, Tile |-> r, X |-> ox * c.pixelWidth, Y |-> oy * c.pixelHeight,
   FibreIntensity |-> fibreI, PrincipalDirection |-> sc.theta,
   StressFibreScore |-> sc.score]

\* f = max(0.0, min(score, 1.0))
ArrowFraction(score) ==
  IF RatLT(score, RatInt(0)) THEN RatInt(0)
  ELSE IF RatLT(RatInt(1), score) THEN RatInt(1) ELSE score

\* the three ol.add calls of lines 119-138
TilePrimitives(roi, x0, y0, st, ox, oy, sc, r) ==
  << [kind |-> "Roi", shape |-> roi],
     [kind |-> "Arrow",
      shape |-> [ox |-> ox, oy |-> oy, theta |-> sc.theta,
                 f |-> ArrowFraction(sc.score)]],
     [kind |-> "TextRoi",
      shape |-> [x |-> x0 + st \div 2 - 10, y |-> y0 + 6, text |-> r]] >>

(***************************************************************************)
(* The images and files of a run.                                          *)
(***************************************************************************)
Plane(pat, level) == [pat |-> pat, level |-> level]

Image(name, w, h, nc, ns, planes) ==
  [title |-> name, W |-> w, H |-> h, nChannels |-> nc, nSlices |-> ns,
   planes |-> planes, cal |-> [pixelWidth |-> 1, pixelHeight |-> 1]]

ImpQuad ==
  Image("quad", 2 * nRows, 2 * nRows, 2, 2,
        <<Plane("flat", 9), Plane("quad", 1), Plane("flat", 9), Plane("rows", 0)>>)

ImpMix ==
  Image("mix", 4 * nRows + 2, 4 * nRows + 2, 1, 1, <<Plane("mix", 0)>>)

ImpMixSmall == Image("mixsmall", 2 * nRows, 2 * nRows, 1, 1, <<Plane("mix", 3)>>)

ImpRows ==
  Image("rows", 4 * nRows + 2, 4 * nRows + 2, 1, 1, <<Plane("rows", 1)>>)

ImpFlat == Image("flat", 2 * nRows, 2 * nRows, 1, 1, <<Plane("flat", 100)>>)

ImpNonSquare ==
  Image("nonsquare", 2 * nRows, 2 * nRows + 2, 1, 1, <<Plane("quad", 0)>>)

ImpSmall == Image("small", nRows - 1, nRows - 1, 1, 1, <<Plane("quad", 0)>>)

Images == {ImpQuad, ImpMix, ImpMixSmall, ImpRows, ImpFlat, ImpNonSquare, ImpSmall}

File(kind, corrupt, images, files) ==
  [kind |-> kind, corrupt |-> corrupt, images |-> images, files |-> files]

NoFile == File("none", FALSE, <<>>, <<>>)

Entries ==
  { File("lif", FALSE, <<ImpNonSquare, ImpMixSmall>>, <<>>),
    File("lif", TRUE, <<>>, <<>>),
    File("dir", FALSE, <<>>,
         <<File("other", FALSE, <<>>, <<>>), File("lif", FALSE, <<ImpRows>>, <<>>)>>) }

Roots ==
  {File("dir", FALSE, <<>>, fs) :
     fs \in UNION {[1..n -> Entries] : n \in 0..MaxFiles}}

Frame(kind, items) == [kind |-> kind, items |-> items]

VARIABLES pc, tile, values, scored,
          W, H, step, overlap, x, y, tileRoi,
          imp, z, maxM, maxZ, actin,
          currentImage, root, stack, rt, rtShown, errors, displayed, ol,
          title, cal, row, exception

tileVars == <<tile, values, scored>>

gridVars == <<W, H, step, overlap, x, y, tileRoi>>

sliceVars == <<imp, z, maxM, maxZ, actin>>

envVars == <<currentImage, root>>

batchVars == <<stack, rt, rtShown, errors, displayed, ol, title, cal, row,
               exception>>

vars == <<pc, tileVars, gridVars, sliceVars, envVars, batchVars>>

NoTile == [w |-> 0, h |-> 0, px |-> <<>>, unit |-> 1]

NoScore == [raised |-> FALSE]

NoCal == [pixelWidth |-> 1, pixelHeight |-> 1]

NoImp == [title |-> "", W |-> 0, H |-> 0, nChannels |-> 0, nSlices |-> 0,
          planes |-> <<>>, cal |-> NoCal]

TileIdle == tile = NoTile /\ values = <<>> /\ scored = NoScore

GridIdle ==
  /\ W = 0 /\ H = 0 /\ step = 0 /\ overlap = 0 /\ x = 0 /\ y = 0
  /\ tileRoi = NoRoi

SliceIdle == imp = NoImp /\ z = 0 /\ maxM = RatInt(0) /\ maxZ = 0 /\ actin = 0

NoTitle == [image |-> "", Z |-> 0]

BatchIdle ==
  /\ currentImage = NoImp /\ root = NoFile
  /\ stack = <<>> /\ rt = <<>> /\ rtShown = FALSE /\ errors = <<>>
  /\ displayed = <<>> /\ ol = <<>> /\ title = NoTitle /\ cal = NoCal
  /\ row = 0 /\ exception = "none"

(***************************************************************************)
(* SpecTile: the body of the tile loop on every small tile.                *)
(***************************************************************************)
Tiles == UNION {[w : {tw}, h : {th}, px : [Coords(tw, th) -> PixVals], unit : {1}] :
                  <<tw, th>> \in (1..MaxTile) \X (1..MaxTile)}

TileInit ==
  /\ pc = "edgeDirections"
  /\ tile \in Tiles
  /\ values = <<>>
  /\ scored = NoScore
  /\ GridIdle /\ SliceIdle /\ BatchIdle

\* one iteration of the loop of edgeDirections
EdgeDirectionsStep ==
  /\ pc = "edgeDirections"
  /\ Len(values) < Len(dirKernels)
  /\ values' = Append(values, DirectionValue(tile, Len(values) + 1))
  /\ UNCHANGED <<pc, tile, scored, gridVars, sliceVars, envVars, batchVars>>

\* edgeDirections returns; lines 103-109
ScoreTile ==
  /\ pc = "edgeDirections"
  /\ Len(values) = Len(dirKernels)
  /\ scored' = Scoring(values)
  /\ pc' = IF Scoring(values).raised THEN "ZeroDivisionError" ELSE "scored"
  /\ UNCHANGED <<tile, values, gridVars, sliceVars, envVars, batchVars>>

TileNext == EdgeDirectionsStep \/ ScoreTile

SpecTile == TileInit /\ [][TileNext]_vars

(***************************************************************************)
(* SpecGrid: the tile loops of tiledAnalysis on every square image of side *)
(* up to MaxSide.                                                          *)
(***************************************************************************)
GridInit ==
  /\ pc = "tiledAnalysis"
  /\ W \in 1..MaxSide
  /\ H = W
  /\ step = 0 /\ overlap = 0 /\ x = 0 /\ y = 0
  /\ tileRoi = NoRoi
  /\ TileIdle /\ SliceIdle /\ BatchIdle

\* lines 84-91 with a step of 0: range() raises ValueError
GridStepZero ==
  /\ pc = "tiledAnalysis"
  /\ StepOf(H) = 0
  /\ pc' = "ValueError"
  /\ UNCHANGED <<tileVars, gridVars, sliceVars, envVars, batchVars>>

\* lines 84-91: the first iteration is at (overlap, overlap)
GridEnter ==
  /\ pc = "tiledAnalysis"
  /\ StepOf(H) # 0
  /\ step' = StepOf(H)
  /\ overlap' = OverlapOf(StepOf(H))
  /\ x' = OverlapOf(StepOf(H))
  /\ y' = OverlapOf(StepOf(H))
  /\ pc' = IF OverlapOf(StepOf(H)) < H - 1 /\ OverlapOf(StepOf(H)) < W - 1
           THEN "tileLoop" ELSE "returned"
  /\ UNCHANGED <<W, H, tileRoi, tileVars, sliceVars, envVars, batchVars>>

GridAdvance ==
  LET n == NextTile(x, y, W, H, step, overlap)
  IN  /\ x' = n.x
      /\ y' = n.y
      /\ pc' = IF n.more THEN "tileLoop" ELSE "returned"

\* line 94: continue
GridSkip ==
  /\ pc = "tileLoop"
  /\ CentreOutside(Centre(x, step), Centre(y, step), W, H)
  /\ GridAdvance
  /\ UNCHANGED <<W, H, step, overlap, tileRoi, tileVars, sliceVars, envVars, batchVars>>

\* line 96: the tile survives the centre check
GridTile ==
  /\ pc = "tileLoop"
  /\ ~CentreOutside(Centre(x, step), Centre(y, step), W, H)
  /\ tileRoi' = Roi(x, y, step, overlap)
  /\ GridAdvance
  /\ UNCHANGED <<W, H, step, overlap, tileVars, sliceVars, envVars, batchVars>>

GridNext == GridStepZero \/ GridEnter \/ GridSkip \/ GridTile

SpecGrid == GridInit /\ [][GridNext]_vars

(***************************************************************************)
(* SpecSlice: the slice selection of run on every small stack.             *)
(***************************************************************************)
Levels == {-2, 0, 1}

SlicePlanes == [pat : {"flat"}, level : Levels]

SliceStacks ==
  UNION {[title : {"stack"}, W : {1}, H : {1}, nChannels : {c}, nSlices : {n},
          planes : [1..(c * n) -> SlicePlanes], cal : {NoCal}] :
           <<c, n>> \in (1..2) \X (1..MaxSlices)}

SliceInit ==
  /\ pc = "run"
  /\ imp \in SliceStacks
  /\ z = 0
  /\ maxM = SliceStart.maxM
  /\ maxZ = SliceStart.maxZ
  /\ actin = 0
  /\ TileIdle /\ GridIdle /\ BatchIdle

\* lines 149-154: one iteration
SliceStep ==
  /\ pc = "run"
  /\ z < imp.nSlices
  /\ LET sel == SliceBody(imp, z, [maxM |-> maxM, maxZ |-> maxZ])
     IN  maxM' = sel.maxM /\ maxZ' = sel.maxZ
  /\ z' = z + 1
  /\ UNCHANGED <<pc, imp, actin, tileVars, gridVars, envVars, batchVars>>

\* line 155
SliceSelect ==
  /\ pc = "run"
  /\ z = imp.nSlices
  /\ actin' = getStackIndex(imp, 2, maxZ, 1)
  /\ pc' = "selected"
  /\ UNCHANGED <<imp, z, maxM, maxZ, tileVars, gridVars, envVars, batchVars>>

SliceNext == SliceStep \/ SliceSelect

SpecSlice == SliceInit /\ [][SliceNext]_vars

(***************************************************************************)
(* Spec: one run of the script, lines 185-194.                             *)
(***************************************************************************)
Init ==
  /\ pc = "module"
  /\ \/ currentImage = NoImp /\ root \in Roots
     \/ currentImage \in Images /\ root = NoFile
  /\ stack = <<>>
  /\ rt = <<>>
  /\ rtShown = FALSE
  /\ errors = <<>>
  /\ displayed = <<>>
  /\ ol = <<>>
  /\ title = NoTitle
  /\ cal = NoCal
  /\ row = 0
  /\ exception = "none"
  /\ TileIdle /\ GridIdle /\ SliceIdle

Top == stack[Len(stack)]

Pop == SubSeq(stack, 1, Len(stack) - 1)

\* the frame on top of the stack moves on to its next item
Advance == Append(Pop, Frame(Top.kind, Tail(Top.items)))

\* lines 187-189: no image is open, fileHandler(File(path))
ModuleDirectory ==
  /\ pc = "module"
  /\ currentImage = NoImp
  /\ stack' = <<Frame("files", <<root>>)>>
  /\ pc' = "fileHandler"
  /\ UNCHANGED <<rt, rtShown, errors, displayed, ol, title, cal, row, exception,
                 tileVars, gridVars, sliceVars, envVars>>

\* lines 191-193: run(imp) on the open image
ModuleImage ==
  /\ pc = "module"
  /\ currentImage # NoImp
  /\ stack' = <<Frame("image", <<currentImage>>)>>
  /\ pc' = "fileHandler"
  /\ UNCHANGED <<rt, rtShown, errors, displayed, ol, title, cal, row, exception,
                 tileVars, gridVars, sliceVars, envVars>>

NextFile ==
  /\ pc = "fileHandler"
  /\ stack # <<>>
  /\ Top.kind = "files"
  /\ Top.items # <<>>

\* lines 170-177: a .lif file is imported and its images are run in turn
OpenLif ==
  /\ NextFile
  /\ Head(Top.items).kind = "lif"
  /\ ~Head(Top.items).corrupt
  /\ stack' = Append(Advance, Frame("images", Head(Top.items).images))
  /\ UNCHANGED <<pc, rt, rtShown, errors, displayed, ol, title, cal, row,
                 exception, tileVars, gridVars, sliceVars, envVars>>

\* line 176: BF.openImagePlus throws; nothing catches it
ImportFails ==
  /\ NextFile
  /\ Head(Top.items).kind = "lif"
  /\ Head(Top.items).corrupt
  /\ pc' = "raised"
  /\ exception' = "FormatException"
  /\ UNCHANGED <<stack, rt, rtShown, errors, displayed, ol, title, cal, row,
                 tileVars, gridVars, sliceVars, envVars>>

\* line 172: a file that is no .lif
SkipFile ==
  /\ NextFile
  /\ Head(Top.items).kind = "other"
  /\ stack' = Advance
  /\ UNCHANGED <<pc, rt, rtShown, errors, displayed, ol, title, cal, row,
                 exception, tileVars, gridVars, sliceVars, envVars>>

\* lines 180-183: a directory, fileHandler on each of its files
EnterDirectory ==
  /\ NextFile
  /\ Head(Top.items).kind = "dir"
  /\ stack' = Append(Advance, Frame("files", Head(Top.items).files))
  /\ UNCHANGED <<pc, rt, rtShown, errors, displayed, ol, title, cal, row,
                 exception, tileVars, gridVars, sliceVars, envVars>>

\* a loop of fileHandler ends, or run(imp) of line 193 has returned
Return ==
  /\ pc = "fileHandler"
  /\ stack # <<>>
  /\ Top.items = <<>>
  /\ stack' = Pop
  /\ UNCHANGED <<pc, rt, rtShown, errors, displayed, ol, title, cal, row,
                 exception, tileVars, gridVars, sliceVars, envVars>>

\* lines 190 and 194: rt.show
ShowTable ==
  /\ pc = "fileHandler"
  /\ stack = <<>>
  /\ rtShown' = TRUE
  /\ pc' = "done"
  /\ UNCHANGED <<stack, rt, errors, displayed, ol, title, cal, row, exception,
                 tileVars, gridVars, sliceVars, envVars>>

NextImage ==
  /\ pc = "fileHandler"
  /\ stack # <<>>
  /\ Top.kind \in {"images", "image"}
  /\ Top.items # <<>>

\* lines 143-158 of run(im), and lines 78-79 of tiledAnalysis
RunHead(im) ==
  LET sel == SliceLoop(im, 0, SliceStart)
  IN  /\ imp' = im
      /\ cal' = im.cal
      /\ z' = im.nSlices
      /\ maxM' = sel.maxM
      /\ maxZ' = sel.maxZ
      /\ actin' = getStackIndex(im, 2, sel.maxZ, 1)
      /\ ol' = <<>>
      /\ title' = [image |-> im.title, Z |-> sel.maxZ]
      /\ W' = im.W
      /\ H' = im.H
      /\ tileRoi' = NoRoi

\* lines 163-167: the selected slice is shown with the overlay
Display(ttl, overlay) == Append(displayed, [title |-> ttl, overlay |-> overlay])

\* lines 80-82: the image is not square; run goes on to show it (163-167)
\* and fileHandler closes it
RunNotSquare ==
  /\ NextImage
  /\ Head(Top.items).W # Head(Top.items).H
  /\ RunHead(Head(Top.items))
  /\ errors' = Append(errors, [message |-> "Image is not square",
                               image |-> Head(Top.items).title])
  /\ displayed' = Display(title', ol')
  /\ stack' = Advance
  /\ UNCHANGED <<pc, rt, rtShown, row, exception, step, overlap, x, y,
                 tileVars, envVars>>

\* lines 88-90 with int(H/nRows) = 0: range() raises ValueError
RunStepZero ==
  /\ NextImage
  /\ Head(Top.items).W = Head(Top.items).H
  /\ StepOf(Head(Top.items).H) = 0
  /\ RunHead(Head(Top.items))
  /\ row' = getCounter(rt)
  /\ pc' = "raised"
  /\ exception' = "ValueError"
  /\ UNCHANGED <<stack, rt, rtShown, errors, displayed, step, overlap, x, y,
                 tileVars, envVars>>

\* lines 84-91: the tile loops are entered
RunTiles ==
  /\ NextImage
  /\ Head(Top.items).W = Head(Top.items).H
  /\ StepOf(Head(Top.items).H) # 0
  /\ RunHead(Head(Top.items))
  /\ row' = getCounter(rt)
  /\ step' = StepOf(H')
  /\ overlap' = OverlapOf(StepOf(H'))
  /\ x' = OverlapOf(StepOf(H'))
  /\ y' = OverlapOf(StepOf(H'))
  /\ pc' = IF OverlapOf(StepOf(H')) < H' - 1 /\ OverlapOf(StepOf(H')) < W' - 1
           THEN "tileLoop" ELSE "display"
  /\ UNCHANGED <<stack, rt, rtShown, errors, displayed, exception, tileVars,
                 envVars>>

InTileLoop == pc = "tileLoop" /\ stack # <<>>

TileAdvance ==
  LET n == NextTile(x, y, W, H, step, overlap)
  IN  /\ x' = n.x
      /\ y' = n.y
      /\ pc' = IF n.more THEN "tileLoop" ELSE "display"

\* the tile of the iteration at (x, y), lines 96-98
TileHere == Crop(imp.planes[actin], W, H, Roi(x, y, step, overlap))

\* line 94: continue
TileSkip ==
  /\ InTileLoop
  /\ CentreOutside(Centre(x, step), Centre(y, step), W, H)
  /\ TileAdvance
  /\ UNCHANGED <<W, H, step, overlap, tileRoi, tileVars, sliceVars, envVars,
                 batchVars>>

\* lines 96-140 for a tile that survives the centre check: the tile is
\* cropped and scored; the division of line 106 may raise
\* ZeroDivisionError, which nothing catches; otherwise the tile is recorded
\* and drawn
TileScored ==
  /\ InTileLoop
  /\ ~CentreOutside(Centre(x, step), Centre(y, step), W, H)
  /\ \E t \in {TileHere} : \E edgeDir \in {edgeDirections(t)} :
       \E sc \in {Scoring(edgeDir)} :
         LET ox == Centre(x, step)
             oy == Centre(y, step)
         IN  /\ tile' = t
             /\ values' = edgeDir
             /\ scored' = sc
             /\ tileRoi' = Roi(x, y, step, overlap)
             /\ IF sc.raised
                THEN /\ pc' = "raised"
                     /\ exception' = "ZeroDivisionError"
                     /\ UNCHANGED <<rt, ol, row, x, y>>
                ELSE IF ~RowInRange(rt, row)
                THEN /\ pc' = "raised"
                     /\ exception' = "IllegalArgumentException"
                     /\ UNCHANGED <<rt, ol, row, x, y>>
                ELSE /\ rt' = setValue(rt, row,
                                TileRecord(title, row, ox, oy, cal, Mean(t), sc))
                     /\ ol' = ol \o TilePrimitives(Roi(x, y, step, overlap), x, y,
                                                   step, ox, oy, sc, row)
                     /\ row' = NextRow(row)
                     /\ TileAdvance
                     /\ UNCHANGED exception
  /\ UNCHANGED <<W, H, step, overlap, sliceVars, envVars, stack, rtShown, errors,
                 displayed, title, cal>>

\* tiledAnalysis returns; lines 163-167 show the image, and fileHandler
\* closes it
RunDisplay ==
  /\ pc = "display"
  /\ stack # <<>>
  /\ displayed' = Display(title, ol)
  /\ stack' = Advance
  /\ pc' = "fileHandler"
  /\ UNCHANGED <<rt, rtShown, errors, ol, title, cal, row, exception, tileVars,
                 gridVars, sliceVars, envVars>>

Next ==
  \/ ModuleDirectory \/ ModuleImage
  \/ OpenLif \/ ImportFails \/ SkipFile \/ EnterDirectory \/ Return \/ ShowTable
  \/ RunNotSquare \/ RunStepZero \/ RunTiles
  \/ TileSkip \/ TileScored \/ RunDisplay

Spec == Init /\ [][Next]_vars

(***************************************************************************)
(* Rotation of a 3x3 kernel about its centre by 45 degrees: every weight   *)
(* of the outer ring moves one place along the ring.                       *)
(***************************************************************************)
Ring == <<1, 2, 3, 6, 9, 8, 7, 4>>

RingPos(p) == CHOOSE j \in 1..Len(Ring) : Ring[j] = p

Rotate45(k, dir) ==
  [p \in 1..Len(k) |->
     IF p \notin {Ring[j] : j \in 1..Len(Ring)} THEN k[p]
     ELSE k[Ring[((RingPos(p) - 1 - dir + Len(Ring)) % Len(Ring)) + 1]]]

RECURSIVE RotateBy(_, _, _)
RotateBy(k, n, dir) == IF n = 0 THEN k ELSE Rotate45(RotateBy(k, n - 1, dir), dir)

AllEqual(s) == \A i, j \in 1..Len(s) : RatEq(s[i], s[j])

(***************************************************************************)
(* Claims settled on SpecTile.                                             *)
(***************************************************************************)

\* C1: the Principal Direction of every scored tile lies in [0, pi): it is
\* at least 0 and strictly less than pi.
C1_PrincipalDirectionInHalfOpenRange ==
  pc = "scored" => (0 <= scored.theta /\ scored.theta < Pi)

\* C7: the kernel at list position i is the first kernel rotated by i * 45
\* degrees, so the kernel of the maximal response of every scored tile is
\* the first kernel rotated by maxi * 45 degrees (in one sense of rotation
\* for the whole list).
C7_KernelIndexIsRotation ==
  \E dir \in {-1, 1} :
    /\ \A i \in 1..Len(dirKernels) :
         dirKernels[i] = RotateBy(dirKernels[1], i - 1, dir)
    /\ pc = "scored" =>
         dirKernels[scored.maxi + 1] = RotateBy(dirKernels[1], scored.maxi, dir)

\* C10: the 8 kernels sum to zero at each of the 9 kernel positions, the 8
\* directional responses of every tile sum to 0, and so edgeSum - edgeMin
\* equals -edgeMin in the score formula.
C10_ResponsesSumToZero ==
  /\ \A p \in 1..9 : SeqSum([i \in 1..Len(dirKernels) |-> dirKernels[i][p]]) = 0
  /\ Len(values) = Len(dirKernels) => RatIsZero(RatSum(values))
  /\ pc # "edgeDirections" =>
       /\ RatIsZero(scored.edgeSum)
       /\ RatEq(RatSub(scored.edgeSum, scored.edgeMin),
                RatSub(RatInt(0), scored.edgeMin))

\* a tile with unequal responses has been scored
C10_Witness ==
  /\ pc = "scored"
  /\ ~AllEqual(values)
  /\ ~RatIsZero(scored.edgeMin)

(***************************************************************************)
(* Claims settled on SpecGrid.                                             *)
(***************************************************************************)
TileKept == tileRoi.width > 0

\* C8 as stated: every tile that survives the centre check lies entirely
\* inside the image.
C8_TileInsideImage ==
  TileKept =>
    /\ 0 <= tileRoi.x
    /\ 0 <= tileRoi.y
    /\ tileRoi.x + tileRoi.width <= W
    /\ tileRoi.y + tileRoi.height <= H

\* C8 as amended: every tile that survives the centre check has its top-left
\* corner and its centre inside the image; its right and bottom edges lie at
\* most overlap + ceil(step/2) - 1 pixels beyond the image.
C8_TileCornerAndCentreInside ==
  TileKept =>
    /\ 0 <= tileRoi.x
    /\ 0 <= tileRoi.y
    /\ tileRoi.x + overlap + step \div 2 <= W - 1
    /\ tileRoi.y + overlap + step \div 2 <= H - 1
    /\ tileRoi.x + tileRoi.width - W <= overlap + (step - step \div 2) - 1
    /\ tileRoi.y + tileRoi.height - H <= overlap + (step - step \div 2) - 1

\* a surviving tile whose rectangle reaches beyond the right edge of the
\* image
C8_Witness ==
  /\ TileKept
  /\ tileRoi.x + tileRoi.width > W
  /\ pc = "tileLoop"

(***************************************************************************)
(* Claims settled on SpecSlice.                                            *)
(***************************************************************************)
RefChannel(im) == IF im.nChannels < 2 THEN im.nChannels ELSE 2

SliceIndex(im, s) == (s - 1) * im.nChannels + RefChannel(im)

SliceMean(im, s) == Mean(GetProcessor(im, SliceIndex(im, s)))

\* C9: the slice selected is the first slice of maximal mean intensity in
\* the reference channel, and the selected index is a valid slice.
C9_FirstMaximalSliceSelected ==
  pc = "selected" =>
    /\ maxZ \in 0..(imp.nSlices - 1)
    /\ \E s \in 1..imp.nSlices :
         /\ actin = SliceIndex(imp, s)
         /\ \A t \in 1..imp.nSlices : ~RatLT(SliceMean(imp, s), SliceMean(imp, t))
         /\ \A t \in 1..(s - 1) : RatLT(SliceMean(imp, t), SliceMean(imp, s))

(***************************************************************************)
(* Claims settled on Spec.                                                 *)
(***************************************************************************)

\* C2: a tile whose 8 directional responses are all equal (all zero for a
\* uniform image) is scored 0 and raises no exception: its record is
\* appended to the table with score 0 and the run goes on.
C2_EqualResponsesScoreZero ==
  (Len(values) = Len(dirKernels) /\ AllEqual(values)) =>
    /\ exception = "none"
    /\ pc # "raised"
    /\ ~scored.raised
    /\ RatIsZero(scored.score)
    /\ Len(rt) > 0
    /\ RatIsZero(rt[Len(rt)].StressFibreScore)

TilesOf(overlay) == Len(overlay) \div 3

\* tiledAnalysis is running, or has been left by an exception
InAnalysis ==
  \/ pc \in {"tileLoop", "display"}
  \/ pc = "raised" /\ exception \in {"ZeroDivisionError", "IllegalArgumentException"}

\* the number of rows recorded before the j-th displayed image
RowsBefore(j) == SeqSum([i \in 1..(j - 1) |-> TilesOf(displayed[i].overlay)])

\* C3: the Tile value of each row is that row's position in the table; the
\* rows of the images come one image after the other, an image of k tiles
\* taking the next k indices (its labels and its rows), and an image without
\* tiles leaving no gap.
C3_TileIndexIsRowPosition ==
  /\ \A i \in 1..Len(rt) : rt[i].Tile = i - 1
  /\ pc = "tileLoop" => row = Len(rt)
  /\ \A j \in 1..Len(displayed) :
       \A m \in 1..TilesOf(displayed[j].overlay) :
         /\ RowsBefore(j) + m <= Len(rt)
         /\ displayed[j].overlay[3 * m].shape.text = RowsBefore(j) + m - 1
         /\ rt[RowsBefore(j) + m].Image = displayed[j].title
  /\ InAnalysis =>
       /\ TilesOf(ol) = Len(rt) - RowsBefore(Len(displayed) + 1)
       /\ \A m \in 1..TilesOf(ol) :
            /\ ol[3 * m].shape.text = Len(rt) - TilesOf(ol) + m - 1
            /\ rt[Len(rt) - TilesOf(ol) + m].Image = title

\* a second image with tiles, after a rejected one, has recorded its first
\* tiles
C3_Witness ==
  /\ pc = "tileLoop"
  /\ Len(displayed) >= 3
  /\ Len(errors) >= 2
  /\ TilesOf(ol) = 2
  /\ Len(rt) = TilesOf(displayed[2].overlay) + 2

\* C4: for an image that is not square an error is recorded, no row and no
\* overlay primitive is produced, and run does not go on to show the image
\* as if the analysis had succeeded.
C4_NonSquareRejected ==
  \A e \in 1..Len(errors) :
    /\ \A i \in 1..Len(rt) : rt[i].Image.image # errors[e].image
    /\ \A j \in 1..Len(displayed) : displayed[j].title.image # errors[e].image

\* C5: a failure stays with its image or file: when the run has ended, every
\* entry of the traversal has been handled and the result table is shown.
C5_FailureConfinedToItsImage ==
  pc \in {"done", "raised"} => (rtShown /\ stack = <<>>)

LastRowIsTile ==
  /\ pc \in {"tileLoop", "display"}
  /\ TileKept
  /\ Len(rt) > 0

RegionMean(Pixel(_, _), roi, unit) ==
  Rat(SeqSum([j \in 1..roi.height |->
        SeqSum([i \in 1..roi.width |-> Pixel(roi.x + i - 1, roi.y + j - 1)])]),
      roi.width * roi.height * unit)

RawMeanOfTile ==
  LET raw(x0, y0) == RawPixel(imp.planes[actin], x0, y0)
  IN  RegionMean(raw, ClipRoi(tileRoi, W, H), 1)

FilteredMeanOfTile ==
  LET band(x0, y0) == ProcessPixel(imp.planes[actin], W, H, x0, y0)
  IN  RegionMean(band, ClipRoi(tileRoi, W, H), ProcUnit)

\* C6 as stated: the Fibre Intensity of a recorded tile is the mean of the
\* raw (unfiltered) pixels of the tile region.
C6_FibreIntensityIsRawMean ==
  LastRowIsTile => rt[Len(rt)].FibreIntensity = RawMeanOfTile

\* C6 as amended: the Fibre Intensity of a recorded tile is the mean of the
\* band-pass-filtered pixels of the tile region, the same cropped tile the
\* directional responses are computed from.
C6_FibreIntensityIsFilteredMean ==
  LastRowIsTile =>
    /\ rt[Len(rt)].FibreIntensity = FilteredMeanOfTile
    /\ rt[Len(rt)].FibreIntensity = Mean(tile)

\* a recorded tile whose raw mean and filtered mean differ
C6_Witness ==
  /\ LastRowIsTile
  /\ RawMeanOfTile # FilteredMeanOfTile
  /\ rt[Len(rt)].FibreIntensity = FilteredMeanOfTile

====
